---- MODULE Spec2Model ----
(***************************************************************************)
(* A model of oidcmsg.key_jar.KeyJar: the owner -> [KeyBundle] mapping,   *)
(* its mutators, the key lookup (KeyJar.get), the purge of outdated keys  *)
(* and the token driven key resolution.                                    *)
(*                                                                         *)
(* Strings that the code slices (owner identifiers, the alg keyword of    *)
(* get, curve names) are sequences of one-character strings, so that      *)
(* owner[:-1], owner + "/" and alg[2:] are computed, not assumed.         *)
(* A missing value (None, or an absent kid) is the empty string: the code *)
(* only ever tests these values for truthiness.                           *)
(***************************************************************************)
EXTENDS Integers, Sequences, FiniteSets, TLC

VARIABLES
    issuer_keys,   \* KeyJar.issuer_keys: owner -> sequence of key bundles
    remove_after,  \* KeyJar.remove_after: the retention window in seconds
    last           \* the last call made on the key jar: op, args, err, res

vars == <<issuer_keys, remove_after, last>>

-----------------------------------------------------------------------------
(* Bounds of the model *)

\* the largest number of key bundles the key jar holds, all owners together
MaxBundles == 2
\* the largest retention window a key jar is constructed with
MaxRemoveAfter == 1
\* the largest 'when' handed to remove_outdated
MaxTime == 4

-----------------------------------------------------------------------------
(* Owners *)

Me == <<>>
OwnerA == <<"a">>
OwnerASlash == <<"a", "/">>
OwnerSlash == <<"/">>

\* the owners keys are stored under
StoreOwners == {Me, OwnerA, OwnerASlash}
\* the owners whose two forms are compared
QueryOwners == StoreOwners \cup {OwnerSlash}

\* owner.endswith("/")
EndsWithSlash(owner) ==
    Len(owner) > 0 /\ owner[Len(owner)] = "/"

\* owner[:-1]
StripLast(owner) ==
    SubSeq(owner, 1, Len(owner) - 1)

\* owner + "/"
AddSlash(owner) ==
    owner \o <<"/">>

-----------------------------------------------------------------------------
(* Keys and key bundles *)

P256 == <<"P", "-", "2", "5", "6">>
P384 == <<"P", "-", "3", "8", "4">>
NoCrv == <<>>

\* a key as the key jar reads it: kty, use, kid, inactive_since, crv, its
\* material k, and whether it is a public, a private or a symmetric key
Key(kty, use, kid, inactive_since, crv, k, sec) ==
    [kty |-> kty, use |-> use, kid |-> kid, inactive_since |-> inactive_since,
     crv |-> crv, k |-> k, sec |-> sec]

\* a key bundle: where its keys come from and the keys
KeyBundle(source, keys) ==
    [source |-> source, keys |-> keys]

\* the source of a bundle built from a key list (None)
NoSource == "<none>"

\* KeyBundle.keys()
BundleKeys(kb) ==
    kb.keys

\* KeyBundle.get(typ): the keys of one key type
BundleGet(kb, typ) ==
    SelectSeq(kb.keys, LAMBDA key : key.kty = typ)

\* len(kb), which is also the truth value of a bundle
BundleLen(kb) ==
    Len(kb.keys)

\* KeyBundle.remove_outdated(after, when): drops the keys that have been
\* inactive for longer than 'after' seconds at time 'when'
BundleRemoveOutdated(kb, after, when) ==
    KeyBundle(kb.source,
              SelectSeq(kb.keys, LAMBDA key :
                  ~(key.inactive_since # 0 /\ key.inactive_since + after < when)))

\* Key.is_private_key(): symmetric keys count as private
IsPrivateKey(key) ==
    key.sec \in {"priv", "sym"}

\* Key.is_public_key(): symmetric keys count as public
IsPublicKey(key) ==
    key.sec \in {"pub", "sym"}

\* three signing keys without kid, the second one rotated out at time 1
KB1 ==
    KeyBundle(NoSource,
        << Key("RSA", "sig", "", 0, NoCrv, "m1", "pub"),
           Key("RSA", "sig", "", 1, NoCrv, "m2", "pub"),
           Key("RSA", "sig", "", 0, NoCrv, "m12", "pub") >>)

\* keys sharing a kid: an inactive encryption key, a key for any use, and
\* two EC keys on different curves
KB2 ==
    KeyBundle(NoSource,
        << Key("RSA", "enc", "k1", 2, NoCrv, "m3", "priv"),
           Key("RSA", "", "k1", 0, NoCrv, "m4", "priv"),
           Key("EC", "sig", "k1", 0, P256, "m5", "pub"),
           Key("EC", "", "k1", 0, P384, "m6", "priv") >>)

\* a bundle whose only key, a shared secret, was rotated out at time 1
KB3 ==
    KeyBundle(NoSource,
        << Key("oct", "enc", "k1", 1, NoCrv, "m7", "sym") >>)

\* shared secrets: one rotated out at time 1, one for any use, one for
\* signing
KB4 ==
    KeyBundle(NoSource,
        << Key("oct", "enc", "k1", 1, NoCrv, "m7", "sym"),
           Key("oct", "", "k1", 0, NoCrv, "m10", "sym"),
           Key("oct", "sig", "", 0, NoCrv, "m11", "sym") >>)

\* the key bundles handed to add_kb
KBs == {KB1, KB2, KB3}
\* the key bundles handed to add_kb in the runs that look keys up
LookupKBs == {KB1, KB2, KB4}

\* the urls keys are fetched from
Urls == {"u1"}

\* what the url serves
RemoteKeys(url) ==
    << Key("RSA", "sig", "k1", 0, NoCrv, "m8", "pub") >>

\* keybundle_cls(source=url): the bundle holds what the fetch brought,
\* nothing when the fetch failed
UrlBundles(url) ==
    IF url = "" THEN {KeyBundle(url, <<>>)}
    ELSE {KeyBundle(url, RemoteKeys(url)), KeyBundle(url, <<>>)}

\* b64e(as_bytes(key))
B64e(key) ==
    <<"b64", key>>

\* keybundle_cls([{"kty": "oct", "k": _key, "use": use}]), use "" when the
\* dictionary has no use
SymBundle(k, use) ==
    KeyBundle(NoSource, << Key("oct", use, "", 0, NoCrv, k, "sym") >>)

\* keybundle_cls(_keys): a bundle of the keys of a JWKS key list; a key read
\* from a JWKS is active
RECURSIVE JwksKeys(_)
JwksKeys(keys) ==
    IF keys = <<>> THEN <<>>
    ELSE << Key(Head(keys).kty, Head(keys).use, Head(keys).kid, 0,
                Head(keys).crv, Head(keys).k, Head(keys).sec) >>
         \o JwksKeys(Tail(keys))

JwksBundle(keys) ==
    KeyBundle(NoSource, JwksKeys(keys))

\* a key of a JWKS: the serialization carries no inactive_since
Jwk(kty, use, kid, crv, k, sec) ==
    [kty |-> kty, use |-> use, kid |-> kid, crv |-> crv, k |-> k, sec |-> sec]

\* the JWKS handed to import_jwks and found in provider info: one without
\* a "keys" member, one with no keys, one with a key
NoKeysMember == [nokeys |-> TRUE]
JwksWithKey == [keys |-> << Jwk("RSA", "sig", "k2", NoCrv, "m9", "pub") >>]
JwksInputs ==
    {NoKeysMember, [keys |-> <<>>], JwksWithKey}

-----------------------------------------------------------------------------
(* The owner -> bundles mapping *)

EmptyJar == <<>>

\* issuer_keys[owner] = seq
Put(s, owner, seq) ==
    [o \in DOMAIN s \cup {owner} |-> IF o = owner THEN seq ELSE s[o]]

\* del issuer_keys[owner]
Del(s, owner) ==
    [o \in DOMAIN s \ {owner} |-> s[o]]

RECURSIVE SumLen(_, _)
SumLen(s, owners) ==
    IF owners = {} THEN 0
    ELSE LET o == CHOOSE x \in owners : TRUE
         IN Len(s[o]) + SumLen(s, owners \ {o})

\* the number of bundles in the key jar
NumBundles(s) ==
    SumLen(s, DOMAIN s)

\* the outcome of a call: the exception raised ("" for none) and the
\* mapping it leaves
Outcome(err, s) ==
    [err |-> err, store |-> s]

\* add_url without the test of the url
add_url_Unchecked(s, owner, url, kc) ==
    IF owner \in DOMAIN s
    THEN Outcome("", Put(s, owner, Append(s[owner], kc)))
    ELSE Outcome("", Put(s, owner, <<kc>>))

\* KeyJar.add_url; kc is the bundle keybundle_cls(source=url) returns
add_url(s, owner, url, kc) ==
    IF url = "" THEN Outcome("KeyError", s)
    ELSE IF owner \in DOMAIN s
         THEN Outcome("", Put(s, owner, Append(s[owner], kc)))
         ELSE Outcome("", Put(s, owner, <<kc>>))

RECURSIVE SymBundles(_, _)
SymBundles(k, usage) ==
    IF usage = <<>> THEN <<>>
    ELSE <<SymBundle(k, Head(usage))>> \o SymBundles(k, Tail(usage))

\* KeyJar.add_symmetric; usage is [given |-> FALSE] for usage=None
add_symmetric(s, owner, key, usage) ==
    LET s1 == IF owner \notin DOMAIN s THEN Put(s, owner, <<>>) ELSE s
        k == B64e(key)
    IN IF ~usage.given
       THEN Put(s1, owner, Append(s1[owner], SymBundle(k, "")))
       ELSE Put(s1, owner, s1[owner] \o SymBundles(k, usage.uses))

\* KeyJar.add_kb
add_kb(s, owner, kb) ==
    IF owner \in DOMAIN s
    THEN Put(s, owner, Append(s[owner], kb))
    ELSE Put(s, owner, <<kb>>)

\* isinstance(kb, KeyBundle)
IsKeyBundle(kb) ==
    "source" \in DOMAIN kb

\* KeyJar.__setitem__; val is [list |-> TRUE, items |-> seq] for a list and
\* [list |-> FALSE, item |-> x] for anything else
setitem(s, owner, val) ==
    LET items == IF val.list THEN val.items ELSE <<val.item>>
    IN IF \E i \in 1..Len(items) : ~IsKeyBundle(items[i])
       THEN Outcome("ValueError", s)
       ELSE Outcome("", Put(s, owner, items))

\* KeyJar.load_keys; kc is the bundle add_url builds from pcr["jwks_uri"]
load_keys(s, pcr, issuer, replace, kc) ==
    LET s1 == IF replace \/ issuer \notin DOMAIN s
              THEN Put(s, issuer, <<>>) ELSE s
        byUrl == IF "jwks_uri" \in DOMAIN pcr
                 THEN add_url(s1, issuer, pcr.jwks_uri, kc)
                 ELSE Outcome("KeyError", s1)
    IN IF byUrl.err = "" THEN byUrl.store
       ELSE IF "jwks" \in DOMAIN pcr /\ "keys" \in DOMAIN pcr.jwks
            THEN Put(s1, issuer, Append(s1[issuer], JwksBundle(pcr.jwks.keys)))
            ELSE s1

\* import_jwks binding the new bundle to the owner in place of the bundles
\* the owner has
import_jwks_Replace(s, jwks, issuer) ==
    IF "keys" \notin DOMAIN jwks THEN Outcome("ValueError", s)
    ELSE Outcome("", Put(s, issuer, <<JwksBundle(jwks.keys)>>))

\* KeyJar.import_jwks
import_jwks(s, jwks, issuer) ==
    IF "keys" \notin DOMAIN jwks THEN Outcome("ValueError", s)
    ELSE IF issuer \in DOMAIN s
         THEN Outcome("", Put(s, issuer, Append(s[issuer], JwksBundle(jwks.keys))))
         ELSE Outcome("", Put(s, issuer, <<JwksBundle(jwks.keys)>>))

RECURSIVE PurgeBundles(_, _, _)
\* the _kbl of remove_outdated: every bundle purged, the ones left with
\* keys kept in order
PurgeBundles(kbs, after, when) ==
    IF kbs = <<>> THEN <<>>
    ELSE LET kb == BundleRemoveOutdated(Head(kbs), after, when)
         IN (IF BundleLen(kb) # 0 THEN <<kb>> ELSE <<>>)
            \o PurgeBundles(Tail(kbs), after, when)

\* remove_outdated with the retention window left out
remove_outdated_NoWindow(s, after, when) ==
    [iss \in {o \in DOMAIN s : PurgeBundles(s[o], 0, when) # <<>>} |->
        PurgeBundles(s[iss], 0, when)]

RECURSIVE PurgeAll(_, _, _)
PurgeAll(kbs, after, when) ==
    IF kbs = <<>> THEN <<>>
    ELSE <<BundleRemoveOutdated(Head(kbs), after, when)>>
         \o PurgeAll(Tail(kbs), after, when)

\* remove_outdated keeping the bundles it emptied
remove_outdated_KeepEmptied(s, after, when) ==
    [iss \in {o \in DOMAIN s : s[o] # <<>>} |-> PurgeAll(s[iss], after, when)]

\* remove_outdated testing len(kb) before it purges kb
remove_outdated_TestFirst(s, after, when) ==
    [iss \in {o \in DOMAIN s :
                  SelectSeq(s[o], LAMBDA kb : BundleLen(kb) # 0) # <<>>} |->
        PurgeAll(SelectSeq(s[iss], LAMBDA kb : BundleLen(kb) # 0), after, when)]

\* KeyJar.remove_outdated
remove_outdated(s, after, when) ==
    [iss \in {o \in DOMAIN s : PurgeBundles(s[o], after, when) # <<>>} |->
        PurgeBundles(s[iss], after, when)]

-----------------------------------------------------------------------------
(* KeyJar.get *)

\* the outcome of a lookup: the exception raised ("" for none) and the
\* list of keys returned
Found(err, keys) ==
    [err |-> err, keys |-> keys]

NoBundles == [found |-> FALSE, kj |-> <<>>]

\* the _kj of get without the second try
OwnerBundles_Exact(s, owner) ==
    IF owner \in DOMAIN s THEN [found |-> TRUE, kj |-> s[owner]]
    ELSE NoBundles

\* the _kj of get: the bundles of the owner, of the owner with the trailing
\* "/" dropped or added when the owner itself is unknown, or None
OwnerBundles(s, owner) ==
    IF owner # Me
    THEN IF owner \in DOMAIN s THEN [found |-> TRUE, kj |-> s[owner]]
         ELSE IF EndsWithSlash(owner)
              THEN IF StripLast(owner) \in DOMAIN s
                   THEN [found |-> TRUE, kj |-> s[StripLast(owner)]]
                   ELSE NoBundles
              ELSE IF AddSlash(owner) \in DOMAIN s
                   THEN [found |-> TRUE, kj |-> s[AddSlash(owner)]]
                   ELSE NoBundles
    ELSE IF owner \in DOMAIN s THEN [found |-> TRUE, kj |-> s[owner]]
         ELSE NoBundles

\* whether get skips an inactive key for this key_use
SkipInactive(key, key_use) ==
    key.inactive_since # 0 /\ key_use # "sig"

RECURSIVE ScanKeys_NoBreak(_, _, _, _)
\* the loop of get over the keys of one bundle, going on after the first
\* key with the kid
ScanKeys_NoBreak(keys, key_use, use, kid) ==
    IF keys = <<>> THEN <<>>
    ELSE LET key == Head(keys)
             rest == Tail(keys)
         IN IF SkipInactive(key, key_use)
            THEN ScanKeys_NoBreak(rest, key_use, use, kid)
            ELSE IF (key.use = "" \/ use = key.use) /\ (kid # "" => key.kid = kid)
                 THEN <<key>> \o ScanKeys_NoBreak(rest, key_use, use, kid)
                 ELSE ScanKeys_NoBreak(rest, key_use, use, kid)

RECURSIVE ScanKeys(_, _, _, _)
\* the loop of get over the keys of one bundle
ScanKeys(keys, key_use, use, kid) ==
    IF keys = <<>> THEN <<>>
    ELSE LET key == Head(keys)
             rest == Tail(keys)
         IN IF SkipInactive(key, key_use)
            THEN ScanKeys(rest, key_use, use, kid)
            ELSE IF key.use = "" \/ use = key.use
                 THEN IF kid # ""
                      THEN IF key.kid = kid THEN <<key>>
                           ELSE ScanKeys(rest, key_use, use, kid)
                      ELSE <<key>> \o ScanKeys(rest, key_use, use, kid)
                 ELSE ScanKeys(rest, key_use, use, kid)

RECURSIVE ScanBundles(_, _, _, _, _)
\* the loop of get over the bundles of the owner
ScanBundles(kj, key_type, key_use, use, kid) ==
    IF kj = <<>> THEN <<>>
    ELSE LET bkeys == IF key_type # "" THEN BundleGet(Head(kj), key_type)
                      ELSE BundleKeys(Head(kj))
         IN ScanKeys(bkeys, key_use, use, kid)
            \o ScanBundles(Tail(kj), key_type, key_use, use, kid)

\* "P-{}".format(alg[2:])
CurveOfAlg(alg) ==
    <<"P", "-">> \o SubSeq(alg, 3, Len(alg))

RECURSIVE MyKeys(_, _, _)
\* the symmetric keys of the key jar's own bundles that get adds
MyKeys(kbs, key_type, use) ==
    IF kbs = <<>> THEN <<>>
    ELSE SelectSeq(BundleGet(Head(kbs), key_type), LAMBDA key :
             key.inactive_since = 0 /\ (key.use = "" \/ key.use = use))
         \o MyKeys(Tail(kbs), key_type, use)

\* get raising KeyError for an owner it does not find
get_Strict(s, key_use, key_type, owner, kid, alg) ==
    LET use == IF key_use \in {"dec", "enc"} THEN "enc" ELSE "sig"
        kj == OwnerBundles(s, owner)
        lst == ScanBundles(kj.kj, key_type, key_use, use, kid)
    IN IF ~kj.found THEN Found("KeyError", <<>>)
       ELSE IF key_type = "EC" /\ alg.given
            THEN Found("", SelectSeq(lst, LAMBDA key : key.crv = CurveOfAlg(alg.alg)))
            ELSE Found("", lst)

\* KeyJar.get; alg is [given |-> FALSE] when the call has no alg keyword
get(s, key_use, key_type, owner, kid, alg) ==
    LET use == IF key_use \in {"dec", "enc"} THEN "enc" ELSE "sig"
        kj == OwnerBundles(s, owner)
        lst == ScanBundles(kj.kj, key_type, key_use, use, kid)
        lst2 == IF key_type = "EC" /\ alg.given
                THEN SelectSeq(lst, LAMBDA key : key.crv = CurveOfAlg(alg.alg))
                ELSE lst
    IN IF ~kj.found THEN Found("", <<>>)
       ELSE IF use = "enc" /\ key_type = "oct" /\ owner # Me
            THEN IF Me \in DOMAIN s
                 THEN Found("", lst2 \o MyKeys(s[Me], key_type, use))
                 ELSE Found("KeyError", <<>>)
            ELSE Found("", lst2)

get_signing_key(s, key_type, owner, kid, alg) ==
    get(s, "sig", key_type, owner, kid, alg)

get_verify_key(s, key_type, owner, kid, alg) ==
    get(s, "ver", key_type, owner, kid, alg)

get_encrypt_key(s, key_type, owner, kid, alg) ==
    get(s, "enc", key_type, owner, kid, alg)

get_decrypt_key(s, key_type, owner, kid, alg) ==
    get(s, "dec", key_type, owner, kid, alg)

-----------------------------------------------------------------------------
(* Key resolution for a token *)

RECURSIVE Merge(_, _)
\* keys with every key of found appended that is not in it yet
Merge(keys, found) ==
    IF found = <<>> THEN keys
    ELSE IF \E i \in 1..Len(keys) : keys[i] = Head(found)
         THEN Merge(keys, Tail(found))
         ELSE Merge(Append(keys, Head(found)), Tail(found))

\* no_kid_issuer: a mapping owner -> list of kids; {} and None are the
\* mapping of no owner
NoNki == <<>>

\* _add_key taking every key when there is no allow-list to go by
add_key_Guess(s, keys, owner, use, key_type, kid, no_kid_issuer, allow_missing_kid) ==
    IF owner \notin DOMAIN s THEN Found("", keys)
    ELSE LET g == get(s, use, key_type, owner, kid, [given |-> FALSE])
         IN IF g.err # "" THEN Found(IF kid # "" THEN g.err ELSE "", keys)
            ELSE IF kid # "" \/ Len(g.keys) <= 1 THEN Found("", Merge(keys, g.keys))
            ELSE IF owner \in DOMAIN no_kid_issuer /\ no_kid_issuer[owner] # <<>>
                 THEN Found("", keys \o SelectSeq(g.keys, LAMBDA k :
                         \E i \in 1..Len(no_kid_issuer[owner]) :
                             no_kid_issuer[owner][i] = k.kid))
                 ELSE Found("", keys \o g.keys)

\* KeyJar._add_key
add_key(s, keys, owner, use, key_type, kid, no_kid_issuer, allow_missing_kid) ==
    IF owner \notin DOMAIN s THEN Found("", keys)
    ELSE IF kid # ""
         THEN LET g == get(s, use, key_type, owner, kid, [given |-> FALSE])
              IN IF g.err # "" THEN Found(g.err, keys)
                 ELSE Found("", Merge(keys, g.keys))
         ELSE LET g == get(s, use, key_type, owner, "", [given |-> FALSE])
                  kl == g.keys
              IN IF g.err # "" THEN Found("", keys)
                 ELSE IF Len(kl) = 0 THEN Found("", keys)
                 ELSE IF Len(kl) = 1 THEN Found("", Merge(keys, kl))
                 ELSE IF allow_missing_kid THEN Found("", keys \o kl)
                 ELSE IF DOMAIN no_kid_issuer # {}
                      THEN IF owner \notin DOMAIN no_kid_issuer
                           THEN Found("", keys)
                           ELSE IF no_kid_issuer[owner] # <<>>
                                THEN Found("", keys \o SelectSeq(kl, LAMBDA k :
                                        \E i \in 1..Len(no_kid_issuer[owner]) :
                                            no_kid_issuer[owner][i] = k.kid))
                                ELSE Found("", keys \o kl)
                      ELSE Found("", keys)

\* jws.alg2keytype and jwe.alg2keytype
Alg2KeyType(alg) ==
    CASE alg \in {"RS256", "RSA1_5"} -> "RSA"
      [] alg \in {"ES256", "ECDH-ES"} -> "EC"
      [] alg \in {"HS256", "A128KW"} -> "oct"

\* d[name], or dflt on KeyError
Member(d, name, dflt) ==
    IF name \in DOMAIN d THEN d[name] ELSE dflt

\* get_jwt_decrypt_keys returning the public keys it found as well
get_jwt_decrypt_keys_Unfiltered(s, jwt) ==
    LET key_type == IF "alg" \in DOMAIN jwt.headers
                    THEN Alg2KeyType(jwt.headers.alg) ELSE ""
        kid == Member(jwt.headers, "kid", "")
        keys == get(s, "enc", key_type, Me, "", [given |-> FALSE])
        added == add_key(s, keys.keys, Me, "enc", key_type, kid,
                         (Me :> <<>>), FALSE)
    IN IF keys.err # "" THEN Found(keys.err, <<>>)
       ELSE IF added.err # "" THEN Found(added.err, <<>>)
       ELSE Found("", added.keys)

\* KeyJar.get_jwt_decrypt_keys
get_jwt_decrypt_keys(s, jwt) ==
    LET key_type == IF "alg" \in DOMAIN jwt.headers
                    THEN Alg2KeyType(jwt.headers.alg) ELSE ""
        kid == Member(jwt.headers, "kid", "")
        keys == get(s, "enc", key_type, Me, "", [given |-> FALSE])
        added == add_key(s, keys.keys, Me, "enc", key_type, kid,
                         (Me :> <<>>), FALSE)
    IN IF keys.err # "" THEN Found(keys.err, <<>>)
       ELSE IF added.err # "" THEN Found(added.err, <<>>)
       ELSE Found("", SelectSeq(added.keys, IsPrivateKey))

\* KeyJar.find: the first bundle of the issuer with the source, or None
find(s, source, issuer) ==
    IF issuer \notin DOMAIN s THEN [found |-> FALSE]
    ELSE LET hits == SelectSeq(s[issuer], LAMBDA kb : kb.source = source)
         IN IF hits = <<>> THEN [found |-> FALSE]
            ELSE [found |-> TRUE, kb |-> Head(hits)]

\* the truth value of what find returns: None is false, and so is a
\* bundle of length 0
Truthy(hit) ==
    hit.found /\ BundleLen(hit.kb) # 0

RECURSIVE AddKeys(_, _, _, _, _, _, _)
\* _add_key for one owner after the other
AddKeys(s, keys, owners, key_type, kid, nki, allow) ==
    IF owners = <<>> THEN Found("", keys)
    ELSE LET one == add_key(s, keys, Head(owners), "sig", key_type, kid, nki, allow)
         IN IF one.err # "" THEN one
            ELSE AddKeys(s, one.keys, Tail(owners), key_type, kid, nki, allow)

\* the owners named by the "aud" and the "client_id" of a payload, in the
\* order get_jwt_verify_keys goes through them; an "aud" that is a string
\* is one owner
Audience(payload) ==
    (IF "aud" \in DOMAIN payload
     THEN IF payload.aud.str THEN <<payload.aud.val>> ELSE payload.aud.val
     ELSE <<>>)
    \o (IF "client_id" \in DOMAIN payload THEN <<payload.client_id>> ELSE <<>>)

\* KeyJar.get_jwt_verify_keys; kc is the bundle add_url builds from the jku.
\* The outcome carries the mapping the call leaves.
get_jwt_verify_keys(s, jwt, kwargs, kc) ==
    LET allow == Member(kwargs, "allow_missing_kid", FALSE)
        key_type == IF "alg" \in DOMAIN jwt.headers
                    THEN Alg2KeyType(jwt.headers.alg) ELSE ""
        kid == Member(jwt.headers, "kid", "")
        nki == Member(kwargs, "no_kid_issuer", NoNki)
        keys0 == get(s, "sig", key_type, Me, "", [given |-> FALSE])
        iss == Member(jwt.payload, "iss", Member(kwargs, "iss", Me))
        keys1 == IF iss # Me
                 THEN add_key(s, keys0.keys, iss, "sig", key_type, kid, nki, allow)
                 ELSE keys0
        s1 == IF /\ "jku" \in DOMAIN jwt.headers
                 /\ iss # Me
                 /\ ~Truthy(find(s, jwt.headers.jku, iss))
                 /\ Member(kwargs, "trusting", FALSE)
              THEN add_url(s, iss, jwt.headers.jku, kc).store
              ELSE s
        keys2 == AddKeys(s1, keys1.keys, Audience(jwt.payload), key_type, kid,
                         nki, allow)
    IN IF keys0.err # "" THEN [err |-> keys0.err, keys |-> <<>>, store |-> s]
       ELSE IF keys1.err # "" THEN [err |-> keys1.err, keys |-> <<>>, store |-> s]
       ELSE IF keys2.err # "" THEN [err |-> keys2.err, keys |-> <<>>, store |-> s1]
       ELSE [err |-> "", keys |-> SelectSeq(keys2.keys, IsPublicKey), store |-> s1]

-----------------------------------------------------------------------------
(* The calls that change the key jar *)

NoArgs == [owner |-> Me]

Call(op, err, args, res) ==
    [op |-> op, err |-> err, args |-> args, res |-> res]

Init ==
    /\ issuer_keys = EmptyJar
    /\ remove_after \in 1..MaxRemoveAfter
    /\ last = Call("init", "", NoArgs, <<>>)

\* the change of the mapping a call makes, within the bound of the model
Becomes(s) ==
    /\ NumBundles(s) <= MaxBundles
    /\ issuer_keys' = s
    /\ UNCHANGED remove_after

AddUrl(owners) ==
    \E owner \in owners, url \in Urls \cup {""} :
      \E kc \in UrlBundles(url) :
        \E out \in {add_url(issuer_keys, owner, url, kc)} :
           /\ Becomes(out.store)
           /\ last' = Call("add_url", out.err, [owner |-> owner, url |-> url], <<>>)

Usages ==
    { [given |-> FALSE],
      [given |-> TRUE, uses |-> <<>>],
      [given |-> TRUE, uses |-> <<"sig">>],
      [given |-> TRUE, uses |-> <<"enc">>],
      [given |-> TRUE, uses |-> <<"enc", "sig">>] }

AddSymmetric(owners) ==
    \E owner \in owners, usage \in Usages :
      \E s \in {add_symmetric(issuer_keys, owner, "s", usage)} :
        /\ Becomes(s)
        /\ last' = Call("add_symmetric", "", [owner |-> owner], <<>>)

AddKb(owners, kbs) ==
    \E owner \in owners, kb \in kbs :
      \E s \in {add_kb(issuer_keys, owner, kb)} :
        /\ Becomes(s)
        /\ last' = Call("add_kb", "", [owner |-> owner], <<>>)

NotABundle == [junk |-> TRUE]

EmptyList == [list |-> TRUE, items |-> <<>>]
Junk == [list |-> FALSE, item |-> NotABundle]

\* what __setitem__ is handed: lists of bundles, a bundle, and values that
\* are no bundles
SetItemValues ==
    { EmptyList,
      [list |-> TRUE, items |-> <<KB1, KB3>>],
      [list |-> TRUE, items |-> <<KB2, NotABundle>>],
      [list |-> FALSE, item |-> KB2],
      Junk }

SetItem(owners, vals) ==
    \E owner \in owners, val \in vals :
        \E out \in {setitem(issuer_keys, owner, val)} :
           /\ Becomes(out.store)
           /\ last' = Call("setitem", out.err, [owner |-> owner], <<>>)

\* the provider info handed to load_keys, with and without "jwks_uri" and
\* "jwks"
ProviderInfos ==
    { [issuer |-> "op"],
      [issuer |-> "op", jwks_uri |-> "u1"],
      [issuer |-> "op", jwks_uri |-> "u1", jwks |-> [keys |-> <<>>]],
      [issuer |-> "op", jwks |-> NoKeysMember],
      [issuer |-> "op", jwks_uri |-> "", jwks |-> JwksWithKey] }

LoadKeys(owners) ==
    \E pcr \in ProviderInfos, issuer \in owners, replace \in BOOLEAN :
      \E kc \in IF "jwks_uri" \in DOMAIN pcr
                 THEN UrlBundles(pcr.jwks_uri) ELSE {NotABundle} :
      \E s \in {load_keys(issuer_keys, pcr, issuer, replace, kc)} :
        /\ Becomes(s)
        /\ last' = Call("load_keys", "", [owner |-> issuer], <<>>)

ImportJwks(owners) ==
    \E jwks \in JwksInputs, issuer \in owners :
        \E out \in {import_jwks(issuer_keys, jwks, issuer)} :
           /\ Becomes(out.store)
           /\ last' = Call("import_jwks", out.err,
                           [owner |-> issuer, jwks |-> jwks], <<>>)

RemoveOutdated ==
    \E when \in 1..MaxTime :
      \E s \in {remove_outdated(issuer_keys, remove_after, when)} :
        /\ Becomes(s)
        /\ last' = Call("remove_outdated", "",
                        [when |-> when,
                         before |-> NumBundles(issuer_keys),
                         repeated |-> last.op = "remove_outdated"
                                      /\ last.args.when = when],
                        <<>>)

\* the owners of the runs that do not look keys up
TwoOwners == {Me, OwnerA}

Mutate ==
    \/ AddUrl(TwoOwners)
    \/ AddSymmetric(TwoOwners)
    \/ AddKb(TwoOwners, KBs)
    \/ SetItem(TwoOwners, SetItemValues)
    \/ LoadKeys(TwoOwners)
    \/ ImportJwks(TwoOwners)
    \/ RemoveOutdated

\* the key jar under its mutators and the purge
SpecStore ==
    Init /\ [][Mutate]_vars

-----------------------------------------------------------------------------
(* Looking keys up *)

KeyUses == {"sig", "ver", "enc", "dec"}
Kids == {"", "k1"}
NoAlg == [given |-> FALSE]
ES256 == [given |-> TRUE, alg |-> <<"E", "S", "2", "5", "6">>]

\* the key type and alg keyword of a lookup; get reads alg for EC only
TypeAndAlg ==
    { <<"", NoAlg>>, <<"RSA", NoAlg>>, <<"oct", NoAlg>>, <<"EC", NoAlg>>,
      <<"EC", ES256>> }

\* a lookup through the wrapper of its usage
Lookup(s, key_use, key_type, owner, kid, alg) ==
    CASE key_use = "sig" -> get_signing_key(s, key_type, owner, kid, alg)
      [] key_use = "ver" -> get_verify_key(s, key_type, owner, kid, alg)
      [] key_use = "enc" -> get_encrypt_key(s, key_type, owner, kid, alg)
      [] key_use = "dec" -> get_decrypt_key(s, key_type, owner, kid, alg)

Get ==
    \E key_use \in KeyUses, ta \in TypeAndAlg, owner \in StoreOwners,
       kid \in Kids :
      \E out \in {Lookup(issuer_keys, key_use, ta[1], owner, kid, ta[2])} :
           /\ last' = Call("get", out.err,
                           [key_use |-> key_use, key_type |-> ta[1],
                            owner |-> owner, kid |-> kid, alg |-> ta[2]],
                           out.keys)
           /\ UNCHANGED <<issuer_keys, remove_after>>

NextLookup ==
    \/ AddKb(StoreOwners, LookupKBs)
    \/ SetItem(StoreOwners, {EmptyList, Junk})
    \/ Get

\* the key jar under add_kb, __setitem__ and the lookups
SpecLookup ==
    Init /\ [][NextLookup]_vars

-----------------------------------------------------------------------------
(* Resolving keys for a token *)

\* the key bundles handed to add_kb in the runs that resolve keys
TokenKBs == {KB1, KB2, KB4}

NoKwargs == [verify |-> TRUE]

\* the candidate lists, owners, usages, key types, kids, allow-lists and
\* allow_missing_kid flags _add_key is called with
AddKeyOwners == {Me, OwnerA, OwnerASlash}
AddKeyPolicies ==
    { <<NoNki, FALSE>>, <<NoNki, TRUE>>,
      <<(OwnerA :> <<>>), FALSE>>, <<(OwnerA :> <<"k1">>), FALSE>>,
      <<(Me :> <<>>), FALSE>> }

AddKey ==
    \E keys \in {<<>>, <<KB1.keys[1]>>}, owner \in AddKeyOwners,
       use \in {"sig", "enc"}, key_type \in {"", "RSA", "oct"}, kid \in Kids,
       policy \in AddKeyPolicies :
      \E out \in {add_key(issuer_keys, keys, owner, use, key_type, kid,
                          policy[1], policy[2])} :
        /\ last' = Call("add_key", out.err,
                        [keys |-> keys, owner |-> owner, use |-> use,
                         key_type |-> key_type, kid |-> kid,
                         no_kid_issuer |-> policy[1],
                         allow_missing_kid |-> policy[2]],
                        out.keys)
        /\ UNCHANGED <<issuer_keys, remove_after>>

NextAddKey ==
    \/ AddKb(TwoOwners, TokenKBs)
    \/ AddKey

\* the key jar under add_kb and _add_key
SpecAddKey ==
    Init /\ [][NextAddKey]_vars

\* the signed tokens: with and without alg, kid, jku, iss, aud, client_id
VerifyTokens ==
    { [headers |-> [alg |-> "RS256", kid |-> "k1", jku |-> "u1"],
       payload |-> [iss |-> OwnerA]],
      [headers |-> [alg |-> "RS256", kid |-> "k1", jku |-> "u1"],
       payload |-> [iss |-> OwnerA, aud |-> [str |-> TRUE, val |-> OwnerA]]],
      [headers |-> [alg |-> "RS256"],
       payload |-> [iss |-> OwnerA, aud |-> [str |-> TRUE, val |-> OwnerA]]],
      [headers |-> [alg |-> "RS256", kid |-> "k1"],
       payload |-> [iss |-> OwnerASlash]],
      [headers |-> [jku |-> "u1"],
       payload |-> [sub |-> "x"]],
      [headers |-> [alg |-> "RS256", jku |-> ""],
       payload |-> [iss |-> OwnerA,
                    aud |-> [str |-> FALSE, val |-> <<OwnerASlash, Me>>],
                    client_id |-> OwnerA]] }

\* the keyword arguments of get_jwt_verify_keys
VerifyKwargs ==
    { NoKwargs,
      [trusting |-> TRUE],
      [trusting |-> FALSE],
      [allow_missing_kid |-> TRUE],
      [no_kid_issuer |-> (OwnerA :> <<"k1">>)],
      [iss |-> OwnerA, trusting |-> TRUE] }

VerifyKeys ==
    \E jwt \in VerifyTokens, kwargs \in VerifyKwargs :
      \E kc \in IF "jku" \in DOMAIN jwt.headers
                 THEN UrlBundles(jwt.headers.jku) ELSE {NotABundle} :
      \E out \in {get_jwt_verify_keys(issuer_keys, jwt, kwargs, kc)} :
        /\ Becomes(out.store)
        /\ last' = Call("get_jwt_verify_keys", out.err,
                        [jwt |-> jwt, kwargs |-> kwargs], out.keys)

\* the encrypted tokens: with and without alg and kid
DecryptTokens ==
    { [headers |-> [alg |-> "RSA1_5", kid |-> "k1"]],
      [headers |-> [alg |-> "RSA1_5"]],
      [headers |-> [alg |-> "A128KW"]],
      [headers |-> [enc |-> "A128GCM"]] }

DecryptKeys ==
    \E jwt \in DecryptTokens :
      \E out \in {get_jwt_decrypt_keys(issuer_keys, jwt)} :
        /\ last' = Call("get_jwt_decrypt_keys", out.err,
                        [jwt |-> jwt, kwargs |-> NoKwargs], out.keys)
        /\ UNCHANGED <<issuer_keys, remove_after>>

NextToken ==
    \/ AddKb(StoreOwners, TokenKBs)
    \/ AddUrl(StoreOwners)
    \/ VerifyKeys
    \/ DecryptKeys

\* the key jar under add_kb, add_url and the key resolution for tokens
SpecToken ==
    Init /\ [][NextToken]_vars

-----------------------------------------------------------------------------
(* Comparing key jars *)

RECURSIVE get_issuer_keys_of(_)
\* res.extend(kbl.keys()) for every bundle of a list
get_issuer_keys_of(kbs) ==
    IF kbs = <<>> THEN <<>>
    ELSE BundleKeys(Head(kbs)) \o get_issuer_keys_of(Tail(kbs))

\* KeyJar.get_issuer_keys
get_issuer_keys(s, issuer) ==
    get_issuer_keys_of(s[issuer])

\* Key.__eq__: the same key, whenever it was rotated out
KeyEq(k1, k2) ==
    [k1 EXCEPT !.inactive_since = 0] = [k2 EXCEPT !.inactive_since = 0]

\* k in ok
KeyIn(k, ok) ==
    \E i \in 1..Len(ok) : KeyEq(k, ok[i])

\* what a key jar is compared with: another key jar, or something else
OtherJar(s) ==
    [jar |-> TRUE, issuer_keys |-> s]

NotAKeyJar == [jar |-> FALSE]

\* __eq__ without the test for a key in common
eq_CountOnly(s, other) ==
    IF ~other.jar THEN FALSE
    ELSE IF DOMAIN s # DOMAIN other.issuer_keys THEN FALSE
    ELSE \A iss \in DOMAIN s :
            Len(get_issuer_keys(s, iss))
              = Len(get_issuer_keys(other.issuer_keys, iss))

\* KeyJar.__eq__
eq(s, other) ==
    IF ~other.jar THEN FALSE
    ELSE IF DOMAIN s # DOMAIN other.issuer_keys THEN FALSE
    ELSE \A iss \in DOMAIN s :
            LET sk == get_issuer_keys(s, iss)
                ok == get_issuer_keys(other.issuer_keys, iss)
            IN /\ Len(sk) = Len(ok)
               /\ \E i \in 1..Len(sk) : KeyIn(sk[i], ok)

\* a bundle with one active shared secret
KB5 ==
    KeyBundle(NoSource,
        << Key("oct", "", "", 0, NoCrv, "m13", "sym") >>)

\* the bundles of the key jars that are compared
EqKBs == {KB1, KB3, KB5}

\* the bundle lists of an owner of the other key jar
EqLists ==
    { <<>>, <<KB3>>, <<KB5>>, <<KB1>>, <<KB3, KB3>> }

\* the key jars a key jar is compared with
OtherJars ==
    { OtherJar(s) : s \in UNION { [D -> EqLists] : D \in SUBSET TwoOwners } }
      \cup {NotAKeyJar}

Eq ==
    \E other \in OtherJars :
        /\ last' = Call("eq", "", [owner |-> Me, other |-> other],
                        eq(issuer_keys, other))
        /\ UNCHANGED <<issuer_keys, remove_after>>

NextEq ==
    \/ AddKb(TwoOwners, EqKBs)
    \/ SetItem(TwoOwners, {EmptyList})
    \/ Eq

\* the key jar under add_kb, __setitem__ and the comparison
SpecEq ==
    Init /\ [][NextEq]_vars

-----------------------------------------------------------------------------
(* Exporting and importing a JWKS *)

\* Key.serialize(private): the JWK of a key, without the private part of a
\* key pair unless private is asked for
Serialize(key, private) ==
    Jwk(key.kty, key.use, key.kid, key.crv, key.k,
        IF key.sec = "priv" /\ ~private THEN "pub" ELSE key.sec)

RECURSIVE SerializeActive(_, _)
\* [k.serialize(private) for k in kb.keys() if k.inactive_since == 0]
SerializeActive(keys, private) ==
    IF keys = <<>> THEN <<>>
    ELSE IF Head(keys).inactive_since = 0
         THEN <<Serialize(Head(keys), private)>>
              \o SerializeActive(Tail(keys), private)
         ELSE SerializeActive(Tail(keys), private)

RECURSIVE SerializeAll(_, _)
\* [k.serialize(private) for k in kb.keys()]
SerializeAll(keys, private) ==
    IF keys = <<>> THEN <<>>
    ELSE <<Serialize(Head(keys), private)>> \o SerializeAll(Tail(keys), private)

RECURSIVE ExportAll(_, _)
\* the serializations of every key of the bundles
ExportAll(kbs, private) ==
    IF kbs = <<>> THEN <<>>
    ELSE SerializeAll(BundleKeys(Head(kbs)), private)
         \o ExportAll(Tail(kbs), private)

RECURSIVE ExportBundles_Reversed(_, _)
\* the loop of export_jwks taking the bundles last to first
ExportBundles_Reversed(kbs, private) ==
    IF kbs = <<>> THEN <<>>
    ELSE ExportBundles_Reversed(Tail(kbs), private)
         \o SerializeActive(BundleKeys(Head(kbs)), private)

RECURSIVE ExportBundles(_, _)
\* the loop of export_jwks over the bundles of the issuer
ExportBundles(kbs, private) ==
    IF kbs = <<>> THEN <<>>
    ELSE SerializeActive(BundleKeys(Head(kbs)), private)
         \o ExportBundles(Tail(kbs), private)

\* the outcome of an export: the exception raised and the JWKS returned
Exported(err, keys) ==
    [err |-> err, jwks |-> [keys |-> keys]]

\* export_jwks serializing the keys that were rotated out as well
export_jwks_Inactive(s, private, issuer) ==
    IF issuer \notin DOMAIN s THEN Exported("KeyError", <<>>)
    ELSE Exported("", ExportAll(s[issuer], private))

\* KeyJar.export_jwks
export_jwks(s, private, issuer) ==
    IF issuer \notin DOMAIN s THEN Exported("KeyError", <<>>)
    ELSE Exported("", ExportBundles(s[issuer], private))

ExportJwks(owners) ==
    \E private \in BOOLEAN, issuer \in owners :
      \E out \in {export_jwks(issuer_keys, private, issuer)} :
        /\ last' = Call("export_jwks", out.err,
                        [owner |-> issuer, private |-> private], out.jwks)
        /\ UNCHANGED <<issuer_keys, remove_after>>

\* import_jwks of the JWKS that the export before it returned
ImportExported(owners) ==
    /\ last.op = "export_jwks"
    /\ last.err = ""
    /\ \E issuer \in owners :
        \E out \in {import_jwks(issuer_keys, last.res, issuer)} :
           /\ Becomes(out.store)
           /\ last' = Call("import_jwks", out.err,
                           [owner |-> issuer, jwks |-> last.res], <<>>)

\* the bundles of the key jars that are exported
JwksKBs == {KB1, KB2, KB5}

NextJwks ==
    \/ AddKb(TwoOwners, JwksKBs)
    \/ ExportJwks(TwoOwners)
    \/ ImportExported(StoreOwners)
    \/ Get

\* the key jar under add_kb, export_jwks, import_jwks and the lookups
SpecJwks ==
    Init /\ [][NextJwks]_vars

-----------------------------------------------------------------------------
(* Indexing the key jar *)

\* KeyJar.__getitem__: the bundles of the owner, or the KeyError of the
\* mapping
getitem(s, owner) ==
    IF owner \in DOMAIN s THEN [err |-> "", val |-> s[owner]]
    ELSE [err |-> "KeyError", val |-> <<>>]

GetItem(owners) ==
    \E owner \in owners :
      \E out \in {getitem(issuer_keys, owner)} :
        /\ last' = Call("getitem", out.err, [owner |-> owner], out.val)
        /\ UNCHANGED <<issuer_keys, remove_after>>

\* the lookups for the owners of a set
GetOf(owners) ==
    \E key_use \in KeyUses, ta \in TypeAndAlg, owner \in owners, kid \in Kids :
      \E out \in {Lookup(issuer_keys, key_use, ta[1], owner, kid, ta[2])} :
           /\ last' = Call("get", out.err,
                           [key_use |-> key_use, key_type |-> ta[1],
                            owner |-> owner, kid |-> kid, alg |-> ta[2]],
                           out.keys)
           /\ UNCHANGED <<issuer_keys, remove_after>>

\* the bundles of the key jars that are indexed
AccessKBs == {KB1, KB4}

NextAccess ==
    \/ AddKb(StoreOwners, AccessKBs)
    \/ GetOf(QueryOwners)
    \/ GetItem(QueryOwners)

\* the key jar under add_kb, the lookups and __getitem__
SpecAccess ==
    Init /\ [][NextAccess]_vars

-----------------------------------------------------------------------------
(* Resolving keys in key jars that hold public encryption keys *)

\* a public key for encryption
KB6 ==
    KeyBundle(NoSource,
        << Key("RSA", "enc", "k1", 0, NoCrv, "m14", "pub") >>)

\* the bundles of the key jars that keys are resolved in
ResolveKBs == {KB2, KB6}

NextResolve ==
    \/ AddKb(StoreOwners, ResolveKBs)
    \/ VerifyKeys
    \/ DecryptKeys

\* the key jar under add_kb and the key resolution for tokens
SpecResolve ==
    Init /\ [][NextResolve]_vars

-----------------------------------------------------------------------------
(* Looking up shared secrets *)

\* the bundles of the key jars that shared secrets are looked up in
OwnKBs == {KB2, KB4, KB5}

NextOwn ==
    \/ AddKb(StoreOwners, OwnKBs)
    \/ Get

\* the key jar under add_kb and the lookups, holding shared secrets with
\* and without kid
SpecOwn ==
    Init /\ [][NextOwn]_vars

-----------------------------------------------------------------------------
(* Copying a key jar *)

\* KeyBundle.copy: a new bundle with the source and the keys of the bundle
BundleCopy(kb) ==
    KeyBundle(kb.source, kb.keys)

\* [kb.copy() for kb in self[owner]]
CopyBundles(kbs) ==
    [i \in 1..Len(kbs) |-> BundleCopy(kbs[i])]

\* copy taking the first bundle of every owner only
copy_FirstBundle(s) ==
    [owner \in DOMAIN s |->
        CopyBundles(SubSeq(getitem(s, owner).val, 1, 1))]

\* KeyJar.copy: a new key jar with, for every owner, the copies of the
\* owner's bundles
copy(s) ==
    [owner \in DOMAIN s |-> CopyBundles(getitem(s, owner).val)]

Copy ==
    /\ last' = Call("copy", "", NoArgs, OtherJar(copy(issuer_keys)))
    /\ UNCHANGED <<issuer_keys, remove_after>>

\* the bundles of the key jars that are copied
CopyKBs == {KB1, KB5}

NextCopy ==
    \/ AddKb(TwoOwners, CopyKBs)
    \/ AddUrl(TwoOwners)
    \/ SetItem(TwoOwners, {EmptyList})
    \/ Copy

\* the key jar under add_kb, add_url, __setitem__ and copy
SpecCopy ==
    Init /\ [][NextCopy]_vars

-----------------------------------------------------------------------------
(* Building a key jar from a key specification *)

\* the largest number of entries of a key specification
MaxSpecs == 2

\* str.upper of the type of an entry
Upper(typ) ==
    CASE typ = "rsa" -> "RSA"
      [] typ = "ec" -> "EC"
      [] typ = "oct" -> "OCT"
      [] OTHER -> typ

\* the key material generated for use j of entry i, and the key of a file
GenNames ==
    << <<"g11", "g12">>, <<"g21", "g22">>, <<"g31", "g32">> >>

FileKey(path) == "f1"

\* whether a key file can be read and holds a key
FileLoads(path) ==
    path = "key.pem"

\* Key.add_kid: the kid made of the thumbprint of the key
Thumbprint(k) ==
    CASE k = "g11" -> "tg11" [] k = "g12" -> "tg12"
      [] k = "g21" -> "tg21" [] k = "g22" -> "tg22"
      [] k = "g31" -> "tg31" [] k = "g32" -> "tg32"
      [] k = "f1" -> "tf1"

\* kid_template % kid for the template "key%d"
Format(kid_template, kid) ==
    <<"key0", "key1", "key2", "key3", "key4", "key5">>[kid + 1]

\* rsa_init: a bundle with a new RSA key for every use of the entry
rsa_init(spec, i) ==
    KeyBundle(NoSource,
        [j \in 1..Len(spec.use) |->
            Key("RSA", spec.use[j], "", 0, NoCrv, GenNames[i][j], "priv")])

\* ec_init: a bundle with a new EC key for every use of the entry
ec_init(spec, i) ==
    KeyBundle(NoSource,
        [j \in 1..Len(spec.use) |->
            Key("EC", spec.use[j], "", 0, spec.crv, GenNames[i][j], "priv")])

\* KeyBundle(source="file://...", fileformat="der", keytype, keyusage): the
\* key of the file, once for every use
FileBundle(spec) ==
    KeyBundle("file", 
        [j \in 1..Len(spec.use) |->
            Key("RSA", spec.use[j], "", 0, NoCrv, FileKey(spec.key), "priv")])

\* kb = {}
EmptyDict == [dict |-> TRUE]

\* the kb of an entry: loaded, generated, or {} for a type that is neither
\* RSA nor EC
SpecBundle(spec, i) ==
    LET typ == Upper(spec.type)
    IN IF typ = "RSA"
       THEN IF "key" \in DOMAIN spec
            THEN IF FileLoads(spec.key) THEN FileBundle(spec)
                 ELSE rsa_init(spec, i)
            ELSE rsa_init(spec, i)
       ELSE IF typ = "EC" THEN ec_init(spec, i)
       ELSE EmptyDict

\* kb.keys() of a bundle and of a dict
KbKeys(kb) ==
    IF IsKeyBundle(kb) THEN BundleKeys(kb) ELSE <<>>

\* the kb with the kids set by the loop over kb.keys()
WithKids(kb, kid_template, kid) ==
    IF ~IsKeyBundle(kb) THEN kb
    ELSE KeyBundle(kb.source,
            [j \in 1..Len(kb.keys) |->
                [kb.keys[j] EXCEPT !.kid =
                    IF kid_template # "" THEN Format(kid_template, kid + j - 1)
                    ELSE Thumbprint(kb.keys[j].k)]])

RECURSIVE BuildFrom(_, _, _, _, _)
\* the loop of build_keyjar from entry i on, with the counter kid
BuildFrom(s, key_conf, i, kid_template, kid) ==
    IF i > Len(key_conf) THEN s
    ELSE LET kb == SpecBundle(key_conf[i], i)
             n == IF kid_template # "" THEN Len(KbKeys(kb)) ELSE 0
         IN BuildFrom(add_kb(s, Me, WithKids(kb, kid_template, kid)),
                      key_conf, i + 1, kid_template, kid + n)

\* build_keyjar; keyjar is the mapping of the key jar handed in, or of a
\* new one
build_keyjar(key_conf, kid_template, keyjar) ==
    BuildFrom(keyjar, key_conf, 1, kid_template, 0)

\* the entries of the key specifications
KeySpecs ==
    { [type |-> "rsa", use |-> <<"enc", "sig">>],
      [type |-> "RSA", key |-> "key.pem", use |-> <<"sig">>],
      [type |-> "RSA", key |-> "nofile", use |-> <<"enc">>],
      [type |-> "EC", crv |-> P256, use |-> <<"sig">>],
      [type |-> "oct", use |-> <<"enc">>] }

KeyConfs ==
    UNION { [1..n -> KeySpecs] : n \in 0..MaxSpecs }

\* build_keyjar with a new key jar (keyjar=None)
BuildNew ==
    \E key_conf \in KeyConfs, kid_template \in {"", "key%d"} :
        /\ last' = Call("build_keyjar", "",
                        [key_conf |-> key_conf, kid_template |-> kid_template,
                         keyjar |-> EmptyJar],
                        OtherJar(build_keyjar(key_conf, kid_template, EmptyJar)))
        /\ UNCHANGED <<issuer_keys, remove_after>>

\* build_keyjar with the key jar (keyjar=self)
BuildInto ==
    \E key_conf \in KeyConfs, kid_template \in {"", "key%d"} :
      \E s \in {build_keyjar(key_conf, kid_template, issuer_keys)} :
        /\ Becomes(s)
        /\ last' = Call("build_keyjar", "",
                        [key_conf |-> key_conf, kid_template |-> kid_template,
                         keyjar |-> issuer_keys],
                        OtherJar(s))

NextBuild ==
    \/ AddKb({OwnerA}, {KB5})
    \/ BuildNew
    \/ BuildInto

\* the key jar under add_kb and build_keyjar
SpecBuild ==
    Init /\ [][NextBuild]_vars

-----------------------------------------------------------------------------
(* Properties of the key jar *)

\* the keys an owner holds, bundle after bundle
RECURSIVE KeysOf(_)
KeysOf(kbs) ==
    IF kbs = <<>> THEN <<>> ELSE Head(kbs).keys \o KeysOf(Tail(kbs))

InSeq(x, seq) ==
    \E i \in 1..Len(seq) : seq[i] = x

\* how often a key is among the keys an owner holds
Occurrences(s, owner, key) ==
    IF owner \notin DOMAIN s THEN 0
    ELSE Cardinality({i \in 1..Len(KeysOf(s[owner])) : KeysOf(s[owner])[i] = key})

\* a key remove_outdated has no reason to drop at time 'when'
Fresh(key, when) ==
    key.inactive_since = 0 \/ key.inactive_since + remove_after >= when

\* C2: no owner maps to an empty sequence of bundles, whatever sequence of
\* add_url, add_symmetric, add_kb, __setitem__, import_jwks, load_keys and
\* remove_outdated led to the state.
C2_NoEmptyOwner ==
    \A o \in DOMAIN issuer_keys : issuer_keys[o] # <<>>

\* C7: remove_outdated drops no active key and no key that has been
\* inactive for at most remove_after seconds at the 'when' it is given:
\* every such key is held by its owner as often after the call as before.
C7_PurgeKeepsFreshKeys ==
    [][last'.op = "remove_outdated" =>
        \A o \in DOMAIN issuer_keys :
          \A i \in 1..Len(KeysOf(issuer_keys[o])) :
            LET key == KeysOf(issuer_keys[o])[i]
            IN Fresh(key, last'.args.when) =>
                 Occurrences(issuer_keys', o, key) = Occurrences(issuer_keys, o, key)
      ]_vars

\* a purge at time 3 that dropped a bundle and left an inactive key that is
\* still within the retention window
C7_Witness ==
    /\ last.op = "remove_outdated"
    /\ last.args.when = 3
    /\ last.args.before > NumBundles(issuer_keys)
    /\ \E o \in DOMAIN issuer_keys :
         \E i \in 1..Len(KeysOf(issuer_keys[o])) :
            /\ KeysOf(issuer_keys[o])[i].inactive_since # 0
            /\ Fresh(KeysOf(issuer_keys[o])[i], 3)

\* the bundles of an owner that still hold a key after a purge at 'when',
\* each with the keys it is left with
Survivors(kbs, when) ==
    LET left(kb) == SelectSeq(kb.keys, LAMBDA key : Fresh(key, when))
        holds(kb) == \E j \in 1..Len(kb.keys) : Fresh(kb.keys[j], when)
        kept == SelectSeq(kbs, holds)
    IN [i \in 1..Len(kept) |-> KeyBundle(kept[i].source, left(kept[i]))]

\* C8: after remove_outdated every bundle in the key jar holds a key and
\* every owner has a bundle, and the bundles that still hold keys are
\* there, in their order, under their owner.
C8_PurgeLeavesNoEmpties ==
    [][last'.op = "remove_outdated" =>
        /\ \A o \in DOMAIN issuer_keys' :
              /\ issuer_keys'[o] # <<>>
              /\ \A i \in 1..Len(issuer_keys'[o]) : issuer_keys'[o][i].keys # <<>>
        /\ DOMAIN issuer_keys' \subseteq DOMAIN issuer_keys
        /\ \A o \in DOMAIN issuer_keys :
              LET kept == Survivors(issuer_keys[o], last'.args.when)
              IN IF Len(kept) = 0 THEN o \notin DOMAIN issuer_keys'
                 ELSE /\ o \in DOMAIN issuer_keys'
                      /\ Len(issuer_keys'[o]) = Len(kept)
                      /\ \A i \in 1..Len(kept) : issuer_keys'[o][i] = kept[i]
      ]_vars

\* a purge that dropped a bundle and kept another
C8_Witness ==
    /\ last.op = "remove_outdated"
    /\ last.args.before > NumBundles(issuer_keys)
    /\ NumBundles(issuer_keys) > 0

\* C9: a remove_outdated that follows a remove_outdated with the same
\* 'when' leaves the key jar as the first one left it.
C9_PurgeIdempotent ==
    [][(last.op = "remove_outdated" /\ last'.op = "remove_outdated"
        /\ last'.args.when = last.args.when)
       => issuer_keys' = issuer_keys]_vars

\* the second of two purges at time 3, in a key jar the purge has taken
\* the inactive key of KB1 from
C9_Witness ==
    /\ last.op = "remove_outdated"
    /\ last.args.repeated
    /\ last.args.when = 3
    /\ \E o \in DOMAIN issuer_keys :
         InSeq(KeyBundle(NoSource, <<KB1.keys[1], KB1.keys[3]>>), issuer_keys[o])

-----------------------------------------------------------------------------
(* Properties of the lookups *)

\* the use-class of a key_use
UseClass(key_use) ==
    IF key_use \in {"enc", "dec"} THEN "enc" ELSE "sig"

\* the keys of the bundles a lookup for the owner reads
QueriedKeys(s, owner) ==
    KeysOf(OwnerBundles(s, owner).kj)

\* a key that fits the key type, the use-class, the kid and the curve that
\* a lookup asks for
Fits(key, a) ==
    /\ a.key_type # "" => key.kty = a.key_type
    /\ key.use = "" \/ key.use = UseClass(a.key_use)
    /\ a.kid # "" => key.kid = a.kid
    /\ (a.key_type = "EC" /\ a.alg.given) => key.crv = CurveOfAlg(a.alg.alg)

\* C1: a lookup returns an inactive key of the queried owner that fits the
\* query exactly when the lookup is for verification: never for "sig",
\* "enc" or "dec", and always (here: in a lookup without kid) for "ver".
C1_InactiveOnlyForVerify ==
    last.op = "get" /\ last.err = "" =>
        \A i \in 1..Len(QueriedKeys(issuer_keys, last.args.owner)) :
            LET key == QueriedKeys(issuer_keys, last.args.owner)[i]
            IN (key.inactive_since # 0 /\ Fits(key, last.args)) =>
                 /\ last.args.key_use # "ver" => ~InSeq(key, last.res)
                 /\ (last.args.key_use = "ver" /\ last.args.kid = "")
                       => InSeq(key, last.res)

\* the other form of an owner: with the trailing "/" dropped, or added
Toggled(owner) ==
    IF EndsWithSlash(owner) THEN StripLast(owner) ELSE AddSlash(owner)

SameLookups(s, o1, o2) ==
    \A key_use \in KeyUses, ta \in TypeAndAlg, kid \in Kids :
        Lookup(s, key_use, ta[1], o1, kid, ta[2])
          = Lookup(s, key_use, ta[1], o2, kid, ta[2])

SlashIsMe ==
    SameLookups(issuer_keys, OwnerSlash, Me)

C6_SigRsaActiveOnly ==
    (/\ last.op = "get"
     /\ last.args.key_use = "sig"
     /\ last.args.key_type = "RSA"
     /\ last.args.kid = ""
     /\ last.args.owner \in DOMAIN issuer_keys
     /\ \E i \in 1..Len(KeysOf(issuer_keys[last.args.owner])) :
           LET key == KeysOf(issuer_keys[last.args.owner])[i]
           IN key.kty = "RSA" /\ key.use = "sig" /\ key.inactive_since = 0)
    => /\ \A i \in 1..Len(last.res) :
             /\ last.res[i].kty = "RSA"
             /\ last.res[i].use # "enc"
             /\ last.res[i].inactive_since = 0
       /\ \A i \in 1..Len(KeysOf(issuer_keys[last.args.owner])) :
             LET key == KeysOf(issuer_keys[last.args.owner])[i]
             IN (key.kty = "RSA" /\ key.use = "sig" /\ key.inactive_since = 0)
                  => InSeq(key, last.res)

-----------------------------------------------------------------------------
(* Properties of the key resolution *)

\* the number of keys of an owner that match a use and a key type: they
\* fit both, and the lookup for that use does not pass them over as inactive
Matching(s, owner, use, key_type) ==
    Cardinality({i \in 1..Len(KeysOf(s[owner])) :
        LET key == KeysOf(s[owner])[i]
        IN /\ ~SkipInactive(key, use)
           /\ key_type # "" => key.kty = key_type
           /\ key.use = "" \/ key.use = use})

\* the case of C4: no kid, a known owner with more than one matching key,
\* no allow_missing_kid, no entry for the owner in the allow-list
Ambiguous ==
    /\ last.op = "add_key"
    /\ last.args.kid = ""
    /\ last.args.owner \in DOMAIN issuer_keys
    /\ Matching(issuer_keys, last.args.owner, last.args.use,
                last.args.key_type) > 1
    /\ ~last.args.allow_missing_kid
    /\ last.args.owner \notin DOMAIN last.args.no_kid_issuer

\* C4: in the ambiguous case _add_key adds no key: it returns the
\* candidate list it was given, and raises nothing.
C4_AmbiguousAddsNothing ==
    Ambiguous => last.err = "" /\ last.res = last.args.keys

\* the ambiguous case with a candidate list that is not empty and an
\* allow-list that names another owner
C4_Witness ==
    /\ Ambiguous
    /\ last.args.keys # <<>>
    /\ last.args.owner = Me
    /\ DOMAIN last.args.no_kid_issuer # {}
    /\ last.res = last.args.keys

\* the issuer get_jwt_verify_keys resolves for a call
IssuerOf(a) ==
    Member(a.jwt.payload, "iss", Member(a.kwargs, "iss", Me))

\* a call that resolves keys for a token
Resolved(call) ==
    call.op \in {"get_jwt_verify_keys", "get_jwt_decrypt_keys"}

\* C3: key resolution for a token changes issuer_keys only in a
\* get_jwt_verify_keys called with a true trusting, and then by appending
\* one bundle whose source is the jku of the token to the bundles of the
\* issuer, who had no bundle with that source.
C3_OnlyTrustedExtension ==
    [][(Resolved(last') /\ issuer_keys' # issuer_keys) =>
        /\ last'.op = "get_jwt_verify_keys"
        /\ Member(last'.args.kwargs, "trusting", FALSE)
        /\ "jku" \in DOMAIN last'.args.jwt.headers
        /\ IssuerOf(last'.args) # Me
        /\ \E kc \in UrlBundles(last'.args.jwt.headers.jku) :
              issuer_keys' = add_kb(issuer_keys, IssuerOf(last'.args), kc)
        /\ IssuerOf(last'.args) \in DOMAIN issuer_keys =>
              \A i \in 1..Len(issuer_keys[IssuerOf(last'.args)]) :
                 issuer_keys[IssuerOf(last'.args)][i].source
                   # last'.args.jwt.headers.jku
      ]_vars

\* the part of C3 the code keeps: no extension without a true trusting,
\* and none but one bundle from the jku under the issuer
TrustGate ==
    [][(Resolved(last') /\ issuer_keys' # issuer_keys) =>
        /\ last'.op = "get_jwt_verify_keys"
        /\ Member(last'.args.kwargs, "trusting", FALSE)
        /\ "jku" \in DOMAIN last'.args.jwt.headers
        /\ IssuerOf(last'.args) # Me
        /\ \E kc \in UrlBundles(last'.args.jwt.headers.jku) :
              issuer_keys' = add_kb(issuer_keys, IssuerOf(last'.args), kc)
      ]_vars

\* C10: when get_jwt_verify_keys extends the key jar for a token that
\* carries a kid, the public key of the new bundle that fits the key type
\* and the kid of the token is among the keys the call returns.
C10_NewBundleConsidered ==
    [][(/\ last'.op = "get_jwt_verify_keys"
        /\ issuer_keys' # issuer_keys
        /\ "kid" \in DOMAIN last'.args.jwt.headers
        /\ "alg" \in DOMAIN last'.args.jwt.headers) =>
        LET iss == IssuerOf(last'.args)
            new == issuer_keys'[iss][Len(issuer_keys'[iss])]
        IN \A i \in 1..Len(new.keys) :
             (/\ new.keys[i].kty = Alg2KeyType(last'.args.jwt.headers.alg)
              /\ new.keys[i].kid = last'.args.jwt.headers.kid
              /\ new.keys[i].use \in {"", "sig"}
              /\ IsPublicKey(new.keys[i]))
             => InSeq(new.keys[i], last'.res)
      ]_vars

-----------------------------------------------------------------------------
(* Properties of the comparison *)

\* the keys an owner holds, as a set, whenever they were rotated out
KeySet(kbs) ==
    { [KeysOf(kbs)[i] EXCEPT !.inactive_since = 0] : i \in 1..Len(KeysOf(kbs)) }

\* C11: a key jar equals another key jar exactly when the two have the same
\* owners and every owner holds as many keys in the one as in the other and
\* at least one key that is in both; it equals nothing that is no key jar.
C11_EqualIffOwnersCountCommon ==
    last.op = "eq" =>
        IF ~last.args.other.jar THEN last.res = FALSE
        ELSE LET other == last.args.other.issuer_keys
             IN last.res =
                  (/\ DOMAIN issuer_keys = DOMAIN other
                   /\ \A o \in DOMAIN issuer_keys :
                        /\ Len(KeysOf(issuer_keys[o])) = Len(KeysOf(other[o]))
                        /\ KeySet(issuer_keys[o]) \cap KeySet(other[o]) # {})

\* two key jars that hold owner "a" alone with one key each, the two keys
\* different, compared unequal
C11_Witness ==
    /\ last.op = "eq"
    /\ last.args.other.jar
    /\ DOMAIN issuer_keys = {OwnerA}
    /\ DOMAIN last.args.other.issuer_keys = {OwnerA}
    /\ Len(KeysOf(issuer_keys[OwnerA])) = 1
    /\ Len(KeysOf(last.args.other.issuer_keys[OwnerA])) = 1
    /\ KeysOf(issuer_keys[OwnerA]) # KeysOf(last.args.other.issuer_keys[OwnerA])
    /\ last.res = FALSE

-----------------------------------------------------------------------------
(* Properties of export and import *)

\* the active keys among keys, in their order
Active(keys) ==
    SelectSeq(keys, LAMBDA key : key.inactive_since = 0)

\* C12: export_jwks for an owner of the key jar returns the serializations
\* of the owner's active keys, bundle after bundle and in the order of the
\* bundles: no key that was rotated out is among them, and without
\* private=True none of them carries the private part of a key pair.
C12_ExportActiveKeysOnly ==
    (last.op = "export_jwks" /\ last.err = "") =>
        LET held == KeysOf(issuer_keys[last.args.owner])
            out == last.res.keys
        IN /\ Len(out) = Len(Active(held))
           /\ \A i \in 1..Len(out) :
                 /\ out[i] = Serialize(Active(held)[i], last.args.private)
                 /\ out[i].kty = Active(held)[i].kty
                 /\ out[i].k = Active(held)[i].k
                 /\ ~last.args.private => out[i].sec # "priv"
                 /\ \A j \in 1..Len(held) :
                       held[j].inactive_since # 0 => held[j].k # out[i].k

\* a public export for an owner that holds private keys, one of them
\* rotated out
C12_Witness ==
    /\ last.op = "export_jwks"
    /\ last.err = ""
    /\ ~last.args.private
    /\ Len(last.res.keys) > 0
    /\ \E j \in 1..Len(KeysOf(issuer_keys[last.args.owner])) :
          LET key == KeysOf(issuer_keys[last.args.owner])[j]
          IN key.inactive_since # 0 /\ key.sec = "priv"
    /\ \E j \in 1..Len(KeysOf(issuer_keys[last.args.owner])) :
          LET key == KeysOf(issuer_keys[last.args.owner])[j]
          IN key.inactive_since = 0 /\ key.sec = "priv"

\* the key material of keys: what a key is, its private part and the time
\* it was rotated out aside
Material(keys) ==
    [i \in 1..Len(keys) |->
        [kty |-> keys[i].kty, use |-> keys[i].use, kid |-> keys[i].kid,
         crv |-> keys[i].crv, k |-> keys[i].k]]

SameMaterial(keys1, keys2) ==
    /\ Len(keys1) = Len(keys2)
    /\ \A i \in 1..Len(keys1) : Material(keys1)[i] = Material(keys2)[i]

\* the keys among keys that a lookup for a usage asks for
ForUsage(keys, key_use) ==
    SelectSeq(keys, LAMBDA key : key.use = "" \/ key.use = UseClass(key_use))

\* an import under a fresh owner of what a private export has just returned
RoundTrip ==
    /\ last.op = "export_jwks"
    /\ last.err = ""
    /\ last.args.private
    /\ last'.op = "import_jwks"
    /\ last'.err = ""
    /\ last'.args.jwks = last.res
    /\ last'.args.owner \notin DOMAIN issuer_keys

\* C13 as claimed: after the round trip a lookup for the fresh owner
\* returns, for every usage, keys equal in key material to the keys of the
\* exported owner for that usage.
C13_RoundTripAllKeys ==
    [][RoundTrip =>
        \A key_use \in KeyUses :
            SameMaterial(
                Lookup(issuer_keys', key_use, "", last'.args.owner, "", NoAlg).keys,
                ForUsage(KeysOf(issuer_keys[last.args.owner]), key_use))
      ]_vars

\* C13 as amended: after the round trip a lookup for the fresh owner
\* returns, for every usage, keys equal in key material to the active keys
\* of the exported owner for that usage.
C13_RoundTripActiveKeys ==
    [][RoundTrip =>
        \A key_use \in KeyUses :
            SameMaterial(
                Lookup(issuer_keys', key_use, "", last'.args.owner, "", NoAlg).keys,
                ForUsage(Active(KeysOf(issuer_keys[last.args.owner])), key_use))
      ]_vars

\* the fresh owner "a/" holds what was exported for the owner "a", who has
\* a key that was rotated out and private keys
C13_Witness ==
    /\ last.op = "import_jwks"
    /\ last.err = ""
    /\ last.args.owner = OwnerASlash
    /\ OwnerA \in DOMAIN issuer_keys
    /\ issuer_keys[OwnerA] = <<KB2>>
    /\ last.args.jwks = export_jwks(issuer_keys, TRUE, OwnerA).jwks
    /\ SameMaterial(KeysOf(issuer_keys[OwnerASlash]), Active(KB2.keys))
    /\ \E i \in 1..Len(KeysOf(issuer_keys[OwnerASlash])) :
          KeysOf(issuer_keys[OwnerASlash])[i].sec = "priv"

\* C14: import_jwks of a JWKS without "keys" raises ValueError and leaves
\* the key jar as it is; any other import_jwks raises nothing and appends
\* one bundle, holding the keys of the JWKS, to the bundles of the owner
\* (the first one of an owner the key jar did not have), leaving the
\* bundles the owner had and the other owners as they are.
C14_ImportAppendsOneBundle ==
    [][last'.op = "import_jwks" =>
        IF "keys" \notin DOMAIN last'.args.jwks
        THEN last'.err = "ValueError" /\ issuer_keys' = issuer_keys
        ELSE LET o == last'.args.owner
                 had == IF o \in DOMAIN issuer_keys THEN issuer_keys[o] ELSE <<>>
             IN /\ last'.err = ""
                /\ DOMAIN issuer_keys' = DOMAIN issuer_keys \cup {o}
                /\ \A p \in DOMAIN issuer_keys \ {o} :
                      issuer_keys'[p] = issuer_keys[p]
                /\ Len(issuer_keys'[o]) = Len(had) + 1
                /\ \A i \in 1..Len(had) : issuer_keys'[o][i] = had[i]
                /\ Len(issuer_keys'[o][Len(had) + 1].keys)
                     = Len(last'.args.jwks.keys)
                /\ NumBundles(issuer_keys') = NumBundles(issuer_keys) + 1
      ]_vars

\* an import that added a second bundle, with a key, to those of an owner
C14_Witness ==
    /\ last.op = "import_jwks"
    /\ last.err = ""
    /\ Len(issuer_keys[last.args.owner]) = 2
    /\ issuer_keys[last.args.owner][1] # issuer_keys[last.args.owner][2]
    /\ Len(issuer_keys[last.args.owner][2].keys) = 1
    /\ issuer_keys[last.args.owner][2].keys[1].k = last.args.jwks.keys[1].k

-----------------------------------------------------------------------------
(* Properties of add_url *)

\* what add_url does with a url that is not empty: one bundle with the url
\* as its source is appended to the bundles of the owner, the first one of
\* an owner the key jar did not have; nothing else changes
AddsUrlBundle ==
    LET o == last'.args.owner
        had == IF o \in DOMAIN issuer_keys THEN issuer_keys[o] ELSE <<>>
    IN /\ last'.err = ""
       /\ DOMAIN issuer_keys' = DOMAIN issuer_keys \cup {o}
       /\ \A p \in DOMAIN issuer_keys \ {o} : issuer_keys'[p] = issuer_keys[p]
       /\ Len(issuer_keys'[o]) = Len(had) + 1
       /\ \A i \in 1..Len(had) : issuer_keys'[o][i] = had[i]
       /\ issuer_keys'[o][Len(had) + 1].source = last'.args.url

\* C15 as claimed: add_url with an empty url fails with a
\* ConfigurationError and leaves the key jar as it is; with any other url it
\* appends one bundle whose source is the url.
C15_AddUrlConfigurationError ==
    [][last'.op = "add_url" =>
        IF last'.args.url = ""
        THEN last'.err = "ConfigurationError" /\ issuer_keys' = issuer_keys
        ELSE AddsUrlBundle
      ]_vars

\* C15 as amended: add_url with an empty url fails with a KeyError and
\* leaves the key jar as it is; with any other url it appends one bundle
\* whose source is the url.
C15_AddUrlKeyError ==
    [][last'.op = "add_url" =>
        IF last'.args.url = ""
        THEN last'.err = "KeyError" /\ issuer_keys' = issuer_keys
        ELSE AddsUrlBundle
      ]_vars

\* add_url with an empty url has failed on a key jar that holds bundles
C15_Witness ==
    /\ last.op = "add_url"
    /\ last.args.url = ""
    /\ last.err = "KeyError"
    /\ last.args.owner \in DOMAIN issuer_keys
    /\ \E i \in 1..Len(issuer_keys[last.args.owner]) :
          issuer_keys[last.args.owner][i].source \in Urls

-----------------------------------------------------------------------------
(* Properties of lookups for unknown owners *)

\* an owner the key jar does not have, with or without the trailing "/"
Unknown(owner) ==
    /\ owner \notin DOMAIN issuer_keys
    /\ owner # Me => Toggled(owner) \notin DOMAIN issuer_keys

\* C16: a lookup for an owner the key jar has in neither form returns an
\* empty list and raises nothing, whatever the usage, the key type and the
\* kid; __getitem__ raises KeyError for exactly the owners that the key jar
\* does not have, and returns the bundles of the others.
C16_UnknownOwnerEmptyResult ==
    /\ (last.op = "get" /\ Unknown(last.args.owner))
          => (last.err = "" /\ last.res = <<>>)
    /\ last.op = "getitem" =>
          IF last.args.owner \in DOMAIN issuer_keys
          THEN last.err = "" /\ last.res = issuer_keys[last.args.owner]
          ELSE last.err = "KeyError"

\* a lookup for encryption with a shared secret and a kid, for an owner
\* that a key jar with keys of its own does not have
C16_Witness ==
    /\ last.op = "get"
    /\ Unknown(last.args.owner)
    /\ last.args.owner = OwnerASlash
    /\ Me \in DOMAIN issuer_keys
    /\ last.args.key_use = "enc"
    /\ last.args.key_type = "oct"
    /\ last.args.kid = "k1"
    /\ last.err = ""
    /\ last.res = <<>>

-----------------------------------------------------------------------------
(* Properties of the keys resolved for a token *)

\* C17: every key get_jwt_decrypt_keys returns is a key of the key jar's own
\* bundles (owner "") and a private key or a shared secret; every key
\* get_jwt_verify_keys returns is a public key or a shared secret.
C17_DecryptPrivateVerifyPublic ==
    /\ last.op = "get_jwt_decrypt_keys" =>
          \A i \in 1..Len(last.res) :
             /\ IsPrivateKey(last.res[i])
             /\ last.res[i].sec \in {"priv", "sym"}
             /\ Me \in DOMAIN issuer_keys
             /\ InSeq(last.res[i], KeysOf(issuer_keys[Me]))
    /\ last.op = "get_jwt_verify_keys" =>
          \A i \in 1..Len(last.res) :
             /\ IsPublicKey(last.res[i])
             /\ last.res[i].sec \in {"pub", "sym"}

\* keys were resolved for decryption from own bundles that hold public
\* keys besides the private ones, while another owner holds private keys
C17_Witness ==
    /\ last.op = "get_jwt_decrypt_keys"
    /\ last.res # <<>>
    /\ Me \in DOMAIN issuer_keys
    /\ \E i \in 1..Len(KeysOf(issuer_keys[Me])) :
          KeysOf(issuer_keys[Me])[i].sec = "pub"
    /\ \E o \in DOMAIN issuer_keys \ {Me} :
          \E i \in 1..Len(KeysOf(issuer_keys[o])) :
             KeysOf(issuer_keys[o])[i].sec = "priv"

-----------------------------------------------------------------------------
(* Properties of lookups with a kid and of lookups for shared secrets *)

\* a lookup that is for encryption or decryption with a shared secret and
\* for another owner than the key jar itself
ForSharedSecret(a) ==
    /\ UseClass(a.key_use) = "enc"
    /\ a.key_type = "oct"
    /\ a.owner # Me

\* the active shared secrets among keys whose use is unset or "enc"
SecretsForEnc(keys) ==
    SelectSeq(keys, LAMBDA key :
        /\ key.kty = "oct"
        /\ key.inactive_since = 0
        /\ key.use = "" \/ key.use = "enc")

\* the key jar's own active shared secrets whose use is unset or "enc"
OwnSecrets ==
    IF Me \in DOMAIN issuer_keys
    THEN SecretsForEnc(KeysOf(issuer_keys[Me])) ELSE <<>>

OwnerThenOwnSecrets ==
    /\ last.err = ""
    /\ last.args.kid = "" =>
          last.res = SecretsForEnc(QueriedKeys(issuer_keys, last.args.owner))
                       \o OwnSecrets

\* C19: a lookup for encryption or decryption with a shared secret, for an
\* owner other than "" that the key jar has, returns the matching keys of
\* the owner followed by the key jar's own active shared secrets whose use
\* is unset or "enc"; in a key jar that holds nothing under "" these are
\* none, and the lookup returns the matching keys of the owner.
C19_OwnSecretsAppended ==
    (/\ last.op = "get"
     /\ ForSharedSecret(last.args)
     /\ OwnerBundles(issuer_keys, last.args.owner).found)
    => OwnerThenOwnSecrets

\* the part of C19 the code keeps: the same, in a key jar that holds
\* bundles under ""
OwnSecretsAppendedWithOwnKeys ==
    (/\ last.op = "get"
     /\ ForSharedSecret(last.args)
     /\ OwnerBundles(issuer_keys, last.args.owner).found
     /\ Me \in DOMAIN issuer_keys)
    => OwnerThenOwnSecrets

-----------------------------------------------------------------------------
(* Properties of the resolution without a kid *)

\* the keys of an owner that match a usage and a key type: those the lookup
\* without a kid is to return
MatchingKeys(s, owner, use, key_type) ==
    LET a == [owner |-> owner, key_use |-> use, key_type |-> key_type,
              kid |-> "", alg |-> [given |-> FALSE]]
    IN SelectSeq(QueriedKeys(s, owner), LAMBDA key :
           ~SkipInactive(key, use) /\ Fits(key, a))
         \o (IF ForSharedSecret(a) THEN OwnSecrets ELSE <<>>)

\* the keys of a list whose kid is in an entry of the allow-list
Allowed(kl, allowed_kids) ==
    SelectSeq(kl, LAMBDA k :
        \E i \in 1..Len(allowed_kids) : allowed_kids[i] = k.kid)

\* what C20 says _add_key returns for the candidates 'keys' and the
\* matching keys kl
NoKidPolicy(a, kl) ==
    IF Len(kl) = 0 THEN last.res = a.keys
    ELSE IF Len(kl) = 1
         THEN /\ InSeq(kl[1], last.res)
              /\ last.res \in {a.keys, Append(a.keys, kl[1])}
    ELSE IF a.allow_missing_kid THEN last.res = a.keys \o kl
    ELSE IF a.owner \in DOMAIN a.no_kid_issuer
         THEN IF a.no_kid_issuer[a.owner] # <<>>
              THEN last.res = a.keys \o Allowed(kl, a.no_kid_issuer[a.owner])
              ELSE last.res = a.keys \o kl
    ELSE TRUE

\* C20: _add_key without a kid, for an owner of the key jar: with no
\* matching key it adds nothing; with one matching key it adds that key;
\* with more than one it adds them all if allow_missing_kid is set, and
\* otherwise, if the owner has an entry in no_kid_issuer, it adds those
\* whose kid is in the entry, or all of them if the entry is empty.
C20_NoKidPolicy ==
    (/\ last.op = "add_key"
     /\ last.args.kid = ""
     /\ last.args.owner \in DOMAIN issuer_keys)
    => NoKidPolicy(last.args,
                   MatchingKeys(issuer_keys, last.args.owner, last.args.use,
                                last.args.key_type))

\* the part of C20 the code keeps: the same, unless the lookup is for a
\* shared secret in a key jar that holds nothing under ""
NoKidPolicyWithOwnKeys ==
    (/\ last.op = "add_key"
     /\ last.args.kid = ""
     /\ last.args.owner \in DOMAIN issuer_keys
     /\ (last.args.use = "enc" /\ last.args.key_type = "oct"
         /\ last.args.owner # Me) => Me \in DOMAIN issuer_keys)
    => NoKidPolicy(last.args,
                   MatchingKeys(issuer_keys, last.args.owner, last.args.use,
                                last.args.key_type))

-----------------------------------------------------------------------------
(* Properties of the candidate list *)

\* no key is at two places of a list
NoDuplicates(keys) ==
    \A i, j \in 1..Len(keys) : keys[i] = keys[j] => i = j

\* C21: the list get_jwt_decrypt_keys or get_jwt_verify_keys returns holds
\* no key more than once.
C21_NoDuplicateCandidates ==
    last.op \in {"get_jwt_decrypt_keys", "get_jwt_verify_keys"} =>
        NoDuplicates(last.res)

\* the part of C21 the code keeps: for a token with a kid, in a key jar
\* whose own bundles hold no key twice, the list holds no key more than once
NoDuplicatesWithKid ==
    (/\ last.op \in {"get_jwt_decrypt_keys", "get_jwt_verify_keys"}
     /\ "kid" \in DOMAIN last.args.jwt.headers
     /\ Me \in DOMAIN issuer_keys => NoDuplicates(KeysOf(issuer_keys[Me])))
    => NoDuplicates(last.res)

-----------------------------------------------------------------------------
(* Properties of the issuer of a token *)

\* the token with the trailing "/" of its iss dropped or added
OtherIss(jwt) ==
    [jwt EXCEPT !.payload.iss = Toggled(jwt.payload.iss)]

\* C22: in a key jar that holds an owner O and not O with the trailing "/"
\* dropped or added, get_jwt_verify_keys for a token whose iss is that
\* other form of O returns the keys it returns for the token with iss O.
C22_VerifySlashTolerant ==
    [][(/\ last'.op = "get_jwt_verify_keys"
        /\ "iss" \in DOMAIN last'.args.jwt.payload
        /\ last'.args.jwt.payload.iss \in {OwnerA, OwnerASlash}
        /\ last'.args.jwt.payload.iss \notin DOMAIN issuer_keys
        /\ Toggled(last'.args.jwt.payload.iss) \in DOMAIN issuer_keys)
       => \E kc \in IF "jku" \in DOMAIN last'.args.jwt.headers
                     THEN UrlBundles(last'.args.jwt.headers.jku)
                     ELSE {NotABundle} :
            LET exact == get_jwt_verify_keys(issuer_keys,
                             OtherIss(last'.args.jwt), last'.args.kwargs, kc)
            IN /\ last'.err = exact.err
               /\ last'.res = exact.keys
      ]_vars

\* what the code does instead: _add_key for an owner the key jar does not
\* hold in that very form returns the candidates as they were
AddKeyExactOwnerOnly ==
    (last.op = "add_key" /\ last.args.owner \notin DOMAIN issuer_keys)
    => last.res = last.args.keys

-----------------------------------------------------------------------------
(* Properties of the copy *)

\* the copy has the owners of the key jar and, for every owner, as many
\* bundles and as many keys
SameShape(s, t) ==
    /\ DOMAIN t = DOMAIN s
    /\ \A o \in DOMAIN s :
          /\ Len(t[o]) = Len(s[o])
          /\ Len(KeysOf(t[o])) = Len(KeysOf(s[o]))

\* C23: the copy of a key jar has the owners of the key jar and for every
\* owner as many bundles and keys, and the copy equals the key jar.
C23_CopyEqualsOriginal ==
    last.op = "copy" =>
        /\ SameShape(issuer_keys, last.res.issuer_keys)
        /\ eq(last.res.issuer_keys, OtherJar(issuer_keys))

\* C23 as amended: the copy has the owners of the key jar and for every
\* owner as many bundles and keys; it equals the key jar exactly when every
\* owner holds a key.
C23_CopyEqualsUnlessEmptyOwner ==
    last.op = "copy" =>
        /\ SameShape(issuer_keys, last.res.issuer_keys)
        /\ eq(last.res.issuer_keys, OtherJar(issuer_keys))
             = (\A o \in DOMAIN issuer_keys : KeysOf(issuer_keys[o]) # <<>>)
        /\ eq(issuer_keys, last.res)
             = (\A o \in DOMAIN issuer_keys : KeysOf(issuer_keys[o]) # <<>>)

\* a key jar with two owners that hold different keys was copied, and the
\* copy equals it
C23_Witness ==
    /\ last.op = "copy"
    /\ DOMAIN issuer_keys = {Me, OwnerA}
    /\ issuer_keys[Me] # issuer_keys[OwnerA]
    /\ \A o \in DOMAIN issuer_keys : KeysOf(issuer_keys[o]) # <<>>
    /\ eq(last.res.issuer_keys, OtherJar(issuer_keys))

-----------------------------------------------------------------------------
(* Properties of the built key jar *)

\* the bundles build_keyjar appended to the key jar's own bundles
Built ==
    LET before == IF Me \in DOMAIN last.args.keyjar
                  THEN Len(last.args.keyjar[Me]) ELSE 0
        own == IF Me \in DOMAIN last.res.issuer_keys
               THEN last.res.issuer_keys[Me] ELSE <<>>
    IN SubSeq(own, before + 1, Len(own))

\* nothing but the key jar's own bundles was changed
OnlyOwnChanged ==
    /\ DOMAIN last.res.issuer_keys \subseteq DOMAIN last.args.keyjar \cup {Me}
    /\ \A o \in DOMAIN last.args.keyjar :
          /\ o \in DOMAIN last.res.issuer_keys
          /\ o # Me => last.res.issuer_keys[o] = last.args.keyjar[o]
          /\ o = Me =>
                SubSeq(last.res.issuer_keys[o], 1, Len(last.args.keyjar[o]))
                  = last.args.keyjar[o]

\* the kids of the built keys are the template filled with 0, 1, 2, ... in
\* the order of the key specification, and no two are the same
NumberedKids ==
    LET keys == KeysOf(Built)
    IN /\ \A i \in 1..Len(keys) :
            keys[i].kid = Format(last.args.kid_template, i - 1)
       /\ \A i, j \in 1..Len(keys) : keys[i].kid = keys[j].kid => i = j

\* C24: after build_keyjar, whatever the key specification, every one of
\* the key jar's own bundles is a key bundle, only the key jar's own
\* bundles were changed, and with a kid template the kids of the built
\* keys are numbered from 0 in the order of the key specification and
\* differ from each other.
C24_BuiltBundlesNumberedKids ==
    last.op = "build_keyjar" =>
        /\ Me \in DOMAIN last.res.issuer_keys =>
              \A i \in 1..Len(last.res.issuer_keys[Me]) :
                 IsKeyBundle(last.res.issuer_keys[Me][i])
        /\ OnlyOwnChanged
        /\ last.args.kid_template # "" => NumberedKids

\* the part of C24 the code keeps: the same for a key specification whose
\* entries are all of type RSA or EC
BuiltFromRsaAndEc ==
    (/\ last.op = "build_keyjar"
     /\ \A i \in 1..Len(last.args.key_conf) :
           Upper(last.args.key_conf[i].type) \in {"RSA", "EC"})
    => /\ \A i \in 1..Len(Built) : IsKeyBundle(Built[i])
       /\ Len(Built) = Len(last.args.key_conf)
       /\ OnlyOwnChanged
       /\ last.args.kid_template # "" => NumberedKids

====
